---- MODULE Spec2Model ----
(***************************************************************************)
(* The four scripts of online-data-exchange that move one hour of tracking *)
(* logs from Tencent COS to Aliyun OSS:                                    *)
(*   threaded    cos_aliyun_fileze_limit_sync.py                           *)
(*   sequential  cos_to_aliyun_filesize_limit.py                           *)
(*   batch       online_to_aliyun.py                                       *)
(*   batch2      online_to_aliyun2.py                                      *)
(* A behaviour is one run of one script; Init chooses the script.          *)
(***************************************************************************)
EXTENDS Integers, Sequences, FiniteSets, TLC

\* ------------------------------------------------------------------ bounds
MaxFiles == 2          \* source objects found by the listing
MaxLinesPerFile == 2   \* lines streamed from one object
NumWorkers == 2        \* download threads that run (DOWNLOAD_WORKERS is 8)
MaxLineLen == 2        \* byte length of a line, without its newline
MaxBatchLines == 3     \* lines the batch scripts read in a run
BytesPerMB == 1        \* stands for 1024 * 1024

UPLOAD_WORKERS == 4
SEQ_LIMIT_FACTOR == 5

Workers == 1..NumWorkers
LineLens == 1..MaxLineLen

\* ----------------------------------------------------------- input values
\* The strings the model draws record fields from. Each appears with the
\* blanks and the letter case the code has to normalise.
RawPlatforms == {"android", " iOS ", "windows"}
RawCountries == {"US", " kr", "CN", "ZZ"}

Strip(s) ==
    CASE s = " iOS " -> "iOS"
      [] s = " kr" -> "kr"
      [] s = " Android " -> "Android"
      [] s = " gb" -> "gb"
      [] OTHER -> s

Lower(s) ==
    CASE s = "iOS" -> "ios"
      [] s = "Android" -> "android"
      [] s = "USA" -> "usa"
      [] s = "KOR" -> "kor"
      [] s = "CHN" -> "chn"
      [] s = "GBR" -> "gbr"
      [] OTHER -> s

Upper(s) ==
    CASE s = "kr" -> "KR"
      [] s = "gb" -> "GB"
      [] s = "usa" -> "USA"
      [] s = "kor" -> "KOR"
      [] s = "chn" -> "CHN"
      [] s = "gbr" -> "GBR"
      [] s = "xxx" -> "XXX"
      [] OTHER -> s

\* pycountry.countries.get(alpha_2=cc2): the alpha_3 code, or no country.
\* The lookup is exact: a lower-case or padded code finds nothing.
country_2to3_lower(cc2) ==
    CASE cc2 = "US" -> Lower("USA")
      [] cc2 = "KR" -> Lower("KOR")
      [] cc2 = "CN" -> Lower("CHN")
      [] cc2 = "GB" -> Lower("GBR")
      [] OTHER -> "xxx"

Geo3s == {"usa", "kor", "chn", "gbr", "xxx"}
AllKeys == {"android", "ios"} \X Geo3s

\* SIZE_LIMITS_MB of each script, restricted to the countries above, with the
\* budgets scaled to the model's line lengths. 0 stands for None (dict.get).
SIZE_LIMITS_MB_sync(key) ==
    CASE key = <<"android", "gbr">> -> 2
      [] key = <<"android", "usa">> -> 4
      [] key = <<"android", "kor">> -> 2
      [] OTHER -> 0

SIZE_LIMITS_MB_seq(key) ==
    CASE key = <<"android", "gbr">> -> 1
      [] key = <<"android", "usa">> -> 2
      [] key = <<"android", "kor">> -> 1
      [] OTHER -> 0

SIZE_LIMITS_MB_b1(key) ==
    CASE key = <<"android", "gbr">> -> 2
      [] key = <<"android", "usa">> -> 4
      [] key = <<"android", "kor">> -> 2
      [] OTHER -> 0

SIZE_LIMITS_MB_b2(key) ==
    CASE key = <<"android", "usa">> -> 4
      [] key = <<"ios", "chn">> -> 5
      [] OTHER -> 0

\* A raw line of a source object. kind: json (a JSON object with the fields
\* below), badjson (not JSON), badutf8 (bytes that do not decode), blank.
RawLines ==
    [kind : {"json"}, platform : RawPlatforms, country_code : RawCountries, len : LineLens]
    \cup {[kind |-> k, platform |-> "", country_code |-> "", len |-> 0] :
             k \in {"badjson", "badutf8", "blank"}}

NoLine == [id |-> <<0, 0>>, key |-> <<"", "">>, platform |-> "", country_code |-> "", len |-> 0]

\* ------------------------------------------------------------------ state
VARIABLES
    script,         \* which of the four scripts runs
    entry_check,    \* threaded: TRUE runs process_single_file from its first
                    \* line (the all-uploaded check), FALSE from line 210
    uploaders,      \* dict (platform, geo3) -> BufferedUploader
    uploader_lock,  \* threaded: holder of uploader_lock, 0 when free
    constructed,    \* history: BufferedUploader() calls per key
    wlog,           \* history: per key, the write calls and their outcomes
    upload_queue,   \* threaded: tasks submitted to upload_executor, not yet run
    put_log,        \* history: the put_object calls, in order
    nfiles,         \* len(file_list)
    next_file,      \* threaded: next object a download thread takes
    pc,             \* threaded: where each download thread is
    cur_file,       \* object being processed
    line_no,        \* lines read from it so far
    cur,            \* the record being processed
    line_count,     \* process_single_file's / main's line_count
    w_up,           \* threaded: the BufferedUploader get_uploader returned
    results,        \* threaded: results of completed futures, not yet collected
    collected,      \* threaded: futures main has collected
    total_lines,
    main_pc,
    s_line,         \* sequential, batch, batch2: lines read so far (of the object)
    s_count,        \* sequential: main's line_count for the current object
    drained,        \* sequential: uploaders the final loop has called _flush on
    buffers,        \* batch2: dict key -> {'lines', 'current_size'}
    grouped_data,   \* batch: dict key -> list of lines
    upload_tasks,   \* batch: list of (platform, geo3, lines)
    skipped,        \* history: why the filter skipped the record a thread read
                    \* last ("" if it did not); 0 is the sequential main
    source,         \* the listed objects and their lines when the run is given
                    \* them; <<>> when the lines are drawn as they are streamed
    now,            \* datetime.utcnow() at the start of main
    times,          \* what get_time_ranges_for_previous_hour returned
    passed_over,    \* history: objects the all-uploaded check returned on
    failed,         \* history: objects whose get_object raised
    cos,            \* the pages list_objects returns for each source location
    conf,           \* listing: index of the location in prefixes being listed
    marker,         \* listing: the page the next list_objects call asks for
    file_list,      \* the keys collected by the listing (all_tasks in the batch scripts)
    list_log,       \* history: the list_objects calls made and whether they raised
    scan,           \* threaded: the iterator of uploaders.values() a thread holds in
                    \* the all-uploaded check: the keys at its creation, those left
    scan_raised     \* history: objects whose all-uploaded check raised RuntimeError

vars == <<script, entry_check, uploaders, uploader_lock, constructed, wlog,
          upload_queue, put_log, nfiles, next_file, pc, cur_file, line_no, cur,
          line_count, w_up, results, collected, total_lines, main_pc,
          s_line, s_count, drained, buffers, grouped_data, upload_tasks, skipped,
          source, now, times, passed_over, failed,
          cos, conf, marker, file_list, list_log, scan, scan_raised>>

\* ------------------------------------------------------------ date and time
\* A datetime is [day, hour, minute]: days since an epoch, hour of the day.
HoursOf(dt) == dt.day * 24 + dt.hour

\* variant: the hour wraps around and the date stays
AddHours_nocarry(dt, n) ==
    [day |-> dt.day, hour |-> (dt.hour + n) % 24, minute |-> dt.minute]

\* dt + timedelta(hours=n)
AddHours(dt, n) ==
    [day |-> (HoursOf(dt) + n) \div 24, hour |-> (HoursOf(dt) + n) % 24,
     minute |-> dt.minute]

\* dt.replace(minute=0, second=0, microsecond=0)
TruncHour(dt) == [dt EXCEPT !.minute = 0]

get_time_ranges_for_previous_hour(now_utc) ==
    LET prev_hour_utc == AddHours(TruncHour(now_utc), -1)
        utc8_now == AddHours(now_utc, 8)
        utc8_prev_hour == AddHours(TruncHour(utc8_now), -1)
    IN  [utc0_hour_dt |-> prev_hour_utc, utc8_hour_dt |-> utc8_prev_hour]

\* strftime("%Y-%m-%d") and strftime("%H")
date_part(dt) == dt.day
hour_part(dt) == dt.hour

\* --------------------------------------------------------- pure operations
\* BufferedUploader.__init__
NewUploader(platform, geo3, limit_mb, n) ==
    [platform |-> platform, geo3 |-> geo3,
     limit_bytes |-> IF limit_mb # 0 THEN limit_mb * BytesPerMB ELSE 0,
     content |-> <<>>, gz_closed |-> FALSE, buffer_closed |-> FALSE,
     current_size |-> 0, line_count |-> 0, lock |-> 0, uploaded |-> FALSE,
     inst |-> n,
     date_part |-> date_part(times.utc0_hour_dt),
     hour_part |-> hour_part(times.utc0_hour_dt)]

\* variant: the file name without the country
DestKey_nogeo(u) == <<"track", u.date_part, u.hour_part, u.platform \o ".log.gz">>

\* filename and key of _do_upload and _flush; the tuple's parts are joined by '/'
DestKey(u) ==
    <<"track", u.date_part, u.hour_part, u.platform \o "." \o u.geo3 \o ".log.gz">>

\* full_path of the batch scripts
BatchDestKey(platform, geo3) ==
    <<"ALI_BUCKET_NAME", "track", date_part(times.utc0_hour_dt),
      hour_part(times.utc0_hour_dt), platform \o "." \o geo3 \o ".log.gz">>

\* len((line + '\n').encode('utf-8'))
AddedSize(line) == line.len + 1

\* variant: tests the bytes already written, not the line to come
OverBudget_lax(u, added_size) ==
    u.limit_bytes # 0 /\ u.current_size > u.limit_bytes

\* variant: also turns away the line that fills the budget exactly
OverBudget_strict(u, added_size) ==
    u.limit_bytes # 0 /\ u.current_size + added_size >= u.limit_bytes

\* the budget test of write
OverBudget(u, added_size) ==
    u.limit_bytes # 0 /\ u.current_size + added_size > u.limit_bytes

\* the bytes gz_file.write puts into the payload for a line
WrittenBytes(u, added_size) == added_size

\* variant: the line is written and counted, its bytes are not added
Accept_nosize(u, line) ==
    [u EXCEPT !.content = Append(@, [id |-> line.id, line |-> line,
                                     n |-> WrittenBytes(u, AddedSize(line))]),
              !.line_count = @ + 1]

\* variant: the new line goes in front of the payload
Accept_prepend(u, line) ==
    [u EXCEPT !.content = <<[id |-> line.id, line |-> line,
                             n |-> WrittenBytes(u, AddedSize(line))]>> \o @,
              !.current_size = @ + AddedSize(line),
              !.line_count = @ + 1]

\* gz_file.write(line_bytes); current_size += added_size; line_count += 1
Accept(u, line) ==
    [u EXCEPT !.content = Append(@, [id |-> line.id, line |-> line,
                                     n |-> WrittenBytes(u, AddedSize(line))]),
              !.current_size = @ + AddedSize(line),
              !.line_count = @ + 1]

\* the guard at the top of _submit_upload and _flush
NothingToUpload(u) == u.line_count = 0 \/ u.uploaded

\* transform_line: the output line, its first two fields and its length
transform_line(data, geo3) ==
    [id |-> data.id,
     geo |-> Upper(geo3),
     osi |-> IF data.platform = "ios" THEN 1
             ELSE IF data.platform = "android" THEN 2 ELSE 0,
     platform |-> data.platform, country_code |-> data.country_code,
     len |-> data.len]

\* the classification of a parsed record, up to the SIZE_LIMITS_MB filter
Classify(data) ==
    LET cc2a == Upper(Strip(data.country_code))
        platform == Lower(Strip(data.platform))
        cc2 == IF cc2a = "UK" THEN "GB" ELSE cc2a
        geo3 == country_2to3_lower(cc2)
    IN  [platform |-> platform, geo3 |-> geo3,
         whitelisted |-> platform \in {"android", "ios"},
         resolved |-> geo3 # "xxx"]

\* variant: without the SIZE_LIMITS_MB test
SkipReason_nolimit(data, size_limit) ==
    LET c == Classify(data)
    IN  IF ~c.whitelisted THEN "platform"
        ELSE IF ~c.resolved THEN "country"
        ELSE ""

\* the three `continue`s of the per-line filter: why a record is skipped;
\* size_limit is SIZE_LIMITS_MB.get(key), 0 for None
SkipReason(data, size_limit) ==
    LET c == Classify(data)
    IN  IF ~c.whitelisted THEN "platform"
        ELSE IF ~c.resolved THEN "country"
        ELSE IF size_limit = 0 THEN "nolimit"
        ELSE ""

KeyOf(data) == <<Classify(data).platform, Classify(data).geo3>>

Accepted(data, size_limit) == SkipReason(data, size_limit) = ""

\* what `skipped` records for a line that was read
Skipped(raw, size_limit) ==
    IF raw.kind = "json" THEN SkipReason(raw, size_limit) ELSE ""

ObjectKey(u) == <<u.platform, u.geo3>>

LogWrite(k, line, outcome) ==
    [wlog EXCEPT ![k] = Append(@, [id |-> line.id, len |-> line.len, outcome |-> outcome])]

AllUploaded == \A k \in DOMAIN uploaders : uploaders[k].uploaded

NoTimes == [utc0_hour_dt |-> [day |-> 0, hour |-> 0, minute |-> 0],
            utc8_hour_dt |-> [day |-> 0, hour |-> 0, minute |-> 0]]

\* the time of the runs whose input is not a clock: the 8-hour shift of its
\* previous hour crosses midnight
RunNow == [day |-> 1, hour |-> 17, minute |-> 30]

\* ------------------------------------------------------------ given objects
\* lines of given objects
Json(platform, country_code, n) ==
    [kind |-> "json", platform |-> platform, country_code |-> country_code, len |-> n]

NotJson(kind) == [kind |-> kind, platform |-> "", country_code |-> "", len |-> 0]

InsertAt(lines, i, line) ==
    SubSeq(lines, 1, i - 1) \o <<line>> \o SubSeq(lines, i, Len(lines))

\* Two objects: three android/US lines and one malformed line, at any place;
\* two ios lines.
ScenarioSources(kinds) ==
    {<<InsertAt(<<Json("android", "US", 1), Json("android", "US", 1),
                  Json("android", "US", 1)>>, i, NotJson(kind)),
       <<Json(" iOS ", "US", 1), Json(" iOS ", " kr", 1)>>>> :
        i \in 1..4, kind \in kinds}

\* Two objects whose records need normalising: platform in another case,
\* country code UK and GB.
NormalisedSources ==
    {<<<<Json(" Android ", "US", 1)>>,
       <<Json("android", "UK", 1), Json("android", " gb", 1)>>>>}

\* a non-UTF-8 line is left out of the objects given to the batch scripts
GivenSources(s) ==
    NormalisedSources
    \cup ScenarioSources(IF s \in {"threaded", "sequential"}
                         THEN {"badjson", "badutf8"} ELSE {"badjson"})

RECURSIVE Flat(_)
Flat(objects) == IF objects = <<>> THEN <<>> ELSE Head(objects) \o Flat(Tail(objects))

\* the lines an object can still deliver after n lines, and whether it ended
StreamLen(f) == IF source = <<>> THEN MaxLinesPerFile ELSE Len(source[f])
NextRaws(f, n) == IF source = <<>> THEN RawLines ELSE {source[f][n]}
StreamEnded(f, n) == IF source = <<>> THEN TRUE ELSE n = Len(source[f])

\* the same for the lines of all objects, read by the batch scripts
InputLen == IF source = <<>> THEN MaxBatchLines ELSE Len(Flat(source))
NextInputs(n) == IF source = <<>> THEN RawLines ELSE {Flat(source)[n]}
InputEnded(n) == IF source = <<>> THEN TRUE ELSE n = Len(Flat(source))

\* ---------------------------------------------------------------- listing
\* A source location (one entry of prefixes) answers list_objects page by
\* page; a page is the sequence of keys in its Contents, a key is
\* [id, dir]: dir is Key.endswith('/').
NumLocations == 2
MaxPages == 2
Locations == 1..NumLocations

ObjKey(n) == [id |-> n, dir |-> FALSE]
DirKey(n) == [id |-> n, dir |-> TRUE]

\* the Contents a page can have: no key, an object, a directory and an object
PageShapes == {<<>>, <<ObjKey(1)>>, <<DirKey(1), ObjKey(2)>>}

PageLists == UNION {[1..n -> PageShapes] : n \in 1..MaxPages}

\* response.get('isTruncated') of page p of location c
isTruncated(c, p) == p < Len(cos[c])

\* not item['Key'].endswith('/')
IsObject(item) == ~item.dir

\* the keys of a page that are appended to file_list / all_tasks
Appended(c, p) ==
    LET contents == cos[c][p]
    IN  SelectSeq([i \in 1..Len(contents) |->
                      [conf |-> c, page |-> p, id |-> contents[i].id,
                       dir |-> contents[i].dir]],
                  IsObject)

\* no thread is in the all-uploaded check
NoScan == [snap |-> {}, rest |-> {}]
NotScanning ==
    /\ scan = [w \in Workers |-> NoScan]
    /\ scan_raised = {}

\* the runs that start after the listing
NotListing ==
    /\ cos = <<>>
    /\ conf = 0
    /\ marker = 0
    /\ file_list = <<>>
    /\ list_log = <<>>

\* ------------------------------------------------------------------- Init
Scripts == {"threaded", "sequential", "batch", "batch2"}

\* where main is once the listing is done
InitialPc(s) ==
    CASE s = "threaded" -> "pool"
      [] s = "sequential" -> "next"
      [] s = "batch" -> "group"
      [] s = "batch2" -> "stream"

Init ==
    /\ script \in Scripts
    /\ entry_check \in (IF script = "threaded" THEN BOOLEAN ELSE {TRUE})
    /\ uploaders = <<>>
    /\ uploader_lock = 0
    /\ constructed = [k \in AllKeys |-> 0]
    /\ wlog = [k \in AllKeys |-> <<>>]
    /\ upload_queue = <<>>
    /\ put_log = <<>>
    /\ nfiles \in (IF script \in {"threaded", "sequential"} THEN 0..MaxFiles ELSE {0})
    /\ next_file = 1
    /\ pc = [w \in Workers |-> "idle"]
    /\ cur_file = [w \in Workers |-> 0]
    /\ line_no = [w \in Workers |-> 0]
    /\ cur = [w \in Workers |-> NoLine]
    /\ line_count = [w \in Workers |-> 0]
    /\ w_up = [w \in Workers |-> 0]
    /\ results = <<>>
    /\ collected = 0
    /\ total_lines = 0
    /\ main_pc = InitialPc(script)
    /\ s_line = 0
    /\ s_count = 0
    /\ drained = {}
    /\ buffers = <<>>
    /\ grouped_data = <<>>
    /\ upload_tasks = <<>>
    /\ skipped = [w \in 0..NumWorkers |-> ""]
    /\ source = <<>>
    /\ now = RunNow
    /\ times = get_time_ranges_for_previous_hour(now)
    /\ passed_over = {}
    /\ failed = {}
    /\ NotListing
    /\ NotScanning

\* ------------------------------------------------- threaded: download pool
wvars == <<cur_file, line_no, cur, line_count, w_up, skipped>>
hist == <<constructed, wlog, put_log>>
mainvars == <<results, collected, total_lines, main_pc>>
othervars == <<s_line, s_count, drained, buffers, grouped_data, upload_tasks>>
listing == <<cos, conf, marker, file_list, list_log>>
env0 == <<entry_check, source, now, times, listing>>
env == <<env0, scan, scan_raised>>
fixed0 == <<script, env, nfiles, othervars>>
fixed == <<fixed0, passed_over, failed>>
envh == <<env, passed_over, failed>>

\* a future finishes with value v (none: the function returned None, or
\* raised, and the future holds no number)
Return(w, v, none) ==
    /\ results' = Append(results, [val |-> v, none |-> none])
    /\ pc' = [pc EXCEPT ![w] = "idle"]
    /\ cur_file' = [cur_file EXCEPT ![w] = 0]
    /\ line_no' = [line_no EXCEPT ![w] = 0]
    /\ cur' = [cur EXCEPT ![w] = NoLine]
    /\ line_count' = [line_count EXCEPT ![w] = 0]
    /\ w_up' = [w_up EXCEPT ![w] = 0]
    /\ skipped' = [skipped EXCEPT ![w] = ""]

\* a pool thread takes the next submitted object
TakeFile(w) ==
    /\ script = "threaded"
    /\ pc[w] = "idle"
    /\ next_file <= nfiles
    /\ cur_file' = [cur_file EXCEPT ![w] = next_file]
    /\ next_file' = next_file + 1
    /\ pc' = [pc EXCEPT ![w] = "check"]
    /\ UNCHANGED <<fixed, uploaders, uploader_lock, hist, upload_queue,
                   line_no, cur, line_count, w_up, skipped, mainvars>>

\* line 206: uploaders.values() and the generator over it are created
BeginScan(w) ==
    /\ script = "threaded"
    /\ entry_check
    /\ pc[w] = "check"
    /\ scan' = [scan EXCEPT ![w] = [snap |-> DOMAIN uploaders, rest |-> DOMAIN uploaders]]
    /\ pc' = [pc EXCEPT ![w] = "scan"]
    /\ UNCHANGED <<script, env0, scan_raised, nfiles, othervars, passed_over, failed,
                   uploaders, uploader_lock, hist, upload_queue, next_file,
                   cur_file, line_no, cur, line_count, w_up, skipped, mainvars>>

\* variant: `if uploaders and all(...)`
Exhausted_nonempty(snap) == snap # {}

\* all() of a generator that ended without a false element
Exhausted(snap) == TRUE

\* process_single_file, lines 206-208: one step of all() over the iterator.
\* The iterator raises RuntimeError when the dict changed size since it was
\* created; the exception leaves process_single_file.
CheckAllUploaded(w) ==
    /\ script = "threaded"
    /\ entry_check
    /\ pc[w] = "scan"
    /\ IF DOMAIN uploaders # scan[w].snap
       THEN /\ Return(w, 0, TRUE)
            /\ scan_raised' = scan_raised \cup {cur_file[w]}
            /\ scan' = [scan EXCEPT ![w] = NoScan]
            /\ UNCHANGED <<collected, total_lines, main_pc, passed_over>>
       ELSE IF scan[w].rest = {}
       THEN IF Exhausted(scan[w].snap)
            THEN /\ Return(w, 0, TRUE)
                 /\ passed_over' = passed_over \cup {cur_file[w]}
                 /\ scan' = [scan EXCEPT ![w] = NoScan]
                 /\ UNCHANGED <<collected, total_lines, main_pc, scan_raised>>
            ELSE /\ pc' = [pc EXCEPT ![w] = "open"]
                 /\ scan' = [scan EXCEPT ![w] = NoScan]
                 /\ UNCHANGED <<wvars, mainvars, passed_over, scan_raised>>
       ELSE \E k \in scan[w].rest :
               IF uploaders[k].uploaded
               THEN /\ scan' = [scan EXCEPT ![w].rest = @ \ {k}]
                    /\ UNCHANGED <<pc, wvars, mainvars, passed_over, scan_raised>>
               ELSE /\ pc' = [pc EXCEPT ![w] = "open"]
                    /\ scan' = [scan EXCEPT ![w] = NoScan]
                    /\ UNCHANGED <<wvars, mainvars, passed_over, scan_raised>>
    /\ UNCHANGED <<script, env0, nfiles, othervars, failed, uploaders, uploader_lock, hist,
                   upload_queue, next_file>>

\* process_single_file entered at line 210
EnterBody(w) ==
    /\ script = "threaded"
    /\ ~entry_check
    /\ pc[w] = "check"
    /\ pc' = [pc EXCEPT ![w] = "open"]
    /\ UNCHANGED <<fixed, uploaders, uploader_lock, hist, upload_queue, next_file,
                   wvars, mainvars>>

\* get_object(...)['Body'].get_raw_stream(); a failure returns line_count
OpenStream(w) ==
    /\ script = "threaded"
    /\ pc[w] = "open"
    /\ \E ok \in BOOLEAN :
          IF ok
          THEN /\ pc' = [pc EXCEPT ![w] = "read"]
               /\ UNCHANGED <<wvars, mainvars, failed>>
          ELSE /\ Return(w, line_count[w], FALSE)
               /\ failed' = failed \cup {cur_file[w]}
               /\ UNCHANGED <<collected, total_lines, main_pc>>
    /\ UNCHANGED <<fixed0, passed_over, uploaders, uploader_lock, hist, upload_queue,
                   next_file>>

\* the stream ends (or fails): return line_count
EndOfStream(w) ==
    /\ script = "threaded"
    /\ pc[w] = "read"
    /\ StreamEnded(cur_file[w], line_no[w])
    /\ Return(w, line_count[w], FALSE)
    /\ UNCHANGED <<fixed, uploaders, uploader_lock, hist, upload_queue, next_file,
                   collected, total_lines, main_pc>>

\* one iteration of `for raw_line in stream`, up to the call of get_uploader
ReadLine(w) ==
    /\ script = "threaded"
    /\ pc[w] = "read"
    /\ line_no[w] < StreamLen(cur_file[w])
    /\ \E raw \in NextRaws(cur_file[w], line_no[w] + 1) :
          LET data == [id |-> <<cur_file[w], line_no[w] + 1>>,
                       key |-> <<Classify(raw).platform, Classify(raw).geo3>>,
                       platform |-> raw.platform,
                       country_code |-> raw.country_code, len |-> raw.len]
          IN  IF raw.kind = "badutf8"
              THEN \* decode raises outside the inner try: the object is given up
                   /\ Return(w, line_count[w], FALSE)
                   /\ UNCHANGED <<collected, total_lines, main_pc>>
              ELSE /\ line_no' = [line_no EXCEPT ![w] = @ + 1]
                   /\ skipped' = [skipped EXCEPT
                                    ![w] = Skipped(raw, SIZE_LIMITS_MB_sync(KeyOf(raw)))]
                   /\ IF raw.kind = "json" /\ Accepted(raw, SIZE_LIMITS_MB_sync(KeyOf(raw)))
                      THEN /\ pc' = [pc EXCEPT ![w] = "gu"]
                           /\ cur' = [cur EXCEPT ![w] = data]
                      ELSE UNCHANGED <<pc, cur>>
                   /\ UNCHANGED <<cur_file, line_count, w_up, mainvars>>
    /\ UNCHANGED <<fixed, uploaders, uploader_lock, hist, upload_queue, next_file>>

\* get_uploader, line 171 (and 176 when the key is there)
GetUploaderCheck(w) ==
    /\ script = "threaded"
    /\ pc[w] = "gu"
    /\ IF cur[w].key \in DOMAIN uploaders
       THEN /\ pc' = [pc EXCEPT ![w] = "w_lock"]
            /\ w_up' = [w_up EXCEPT ![w] = uploaders[cur[w].key].inst]
       ELSE /\ pc' = [pc EXCEPT ![w] = "gu_lock"]
            /\ UNCHANGED w_up
    /\ UNCHANGED <<fixed, uploaders, uploader_lock, hist, upload_queue, next_file,
                   cur_file, line_no, cur, line_count, skipped, mainvars>>

\* with uploader_lock:
GetUploaderAcquire(w) ==
    /\ script = "threaded"
    /\ pc[w] = "gu_lock"
    /\ uploader_lock = 0
    /\ uploader_lock' = w
    /\ pc' = [pc EXCEPT ![w] = "gu_in"]
    /\ UNCHANGED <<fixed, uploaders, hist, upload_queue, next_file, wvars, mainvars>>

\* variant: no second test under the lock
StillMissing_unchecked(key) == TRUE

\* the second test of get_uploader, line 173
StillMissing(key) == key \notin DOMAIN uploaders

\* lines 173-176, holding uploader_lock
GetUploaderCreate(w) ==
    /\ script = "threaded"
    /\ pc[w] = "gu_in"
    /\ LET key == cur[w].key
           n == constructed[key] + 1
       IN  IF StillMissing(key)
           THEN /\ uploaders' = [k \in DOMAIN uploaders \cup {key} |->
                                   IF k = key
                                   THEN NewUploader(key[1], key[2], SIZE_LIMITS_MB_sync(key), n)
                                   ELSE uploaders[k]]
                /\ constructed' = [constructed EXCEPT ![key] = n]
                /\ w_up' = [w_up EXCEPT ![w] = n]
           ELSE /\ w_up' = [w_up EXCEPT ![w] = uploaders[key].inst]
                /\ UNCHANGED <<uploaders, constructed>>
    /\ uploader_lock' = 0
    /\ pc' = [pc EXCEPT ![w] = "w_lock"]
    /\ UNCHANGED <<fixed, wlog, put_log, upload_queue, next_file,
                   cur_file, line_no, cur, line_count, skipped, mainvars>>

\* after uploader.write returned or raised: back to the loop
NextLine(w, counted) ==
    /\ pc' = [pc EXCEPT ![w] = "read"]
    /\ cur' = [cur EXCEPT ![w] = NoLine]
    /\ w_up' = [w_up EXCEPT ![w] = 0]
    /\ line_count' = [line_count EXCEPT ![w] = IF counted THEN @ + 1 ELSE @]

\* write, lines 116-118: take self.lock, return if uploaded
WriteAcquire(w) ==
    /\ script = "threaded"
    /\ pc[w] = "w_lock"
    /\ LET k == cur[w].key
           line == transform_line(cur[w], k[2])
       IN  /\ uploaders[k].lock = 0
           /\ IF uploaders[k].uploaded
              THEN /\ wlog' = LogWrite(k, line, "uploaded")
                   /\ NextLine(w, TRUE)
                   /\ UNCHANGED uploaders
              ELSE /\ uploaders' = [uploaders EXCEPT ![k].lock = w]
                   /\ pc' = [pc EXCEPT ![w] = "w_in"]
                   /\ UNCHANGED <<wlog, cur, w_up, line_count>>
    /\ UNCHANGED <<fixed, uploader_lock, constructed, put_log, upload_queue, next_file,
                   cur_file, line_no, skipped, mainvars>>

\* _submit_upload: the uploader after the call, and whether a task was submitted
SubmitUpload(u) ==
    IF NothingToUpload(u)
    THEN [u |-> u, submitted |-> FALSE]
    ELSE [u |-> [u EXCEPT !.gz_closed = TRUE], submitted |-> TRUE]

\* variant: writes the line before it tests the budget
Write_eager(u, line) ==
    IF OverBudget(u, AddedSize(line))
    THEN [u |-> SubmitUpload(Accept(u, line)).u,
          submitted |-> SubmitUpload(Accept(u, line)).submitted,
          outcome |-> "budget", raised |-> FALSE]
    ELSE IF u.gz_closed
    THEN [u |-> u, submitted |-> FALSE, outcome |-> "closed", raised |-> TRUE]
    ELSE [u |-> Accept(u, line), submitted |-> FALSE, outcome |-> "accepted",
          raised |-> FALSE]

\* write, lines 120-129, holding self.lock; raised: gz_file.write raised ValueError
Write(u, line) ==
    IF OverBudget(u, AddedSize(line))
    THEN [u |-> SubmitUpload(u).u, submitted |-> SubmitUpload(u).submitted,
          outcome |-> "budget", raised |-> FALSE]
    ELSE IF u.gz_closed
    THEN [u |-> u, submitted |-> FALSE, outcome |-> "closed", raised |-> TRUE]
    ELSE [u |-> Accept(u, line), submitted |-> FALSE, outcome |-> "accepted",
          raised |-> FALSE]

\* variant: self.lock.acquire() without a release
Unlocked_kept(u) == u

\* the end of `with self.lock:`
Unlocked(u) == [u EXCEPT !.lock = 0]

\* write after line 118, with _submit_upload; releases self.lock. An exception
\* of gz_file.write is swallowed at line 247, which skips line_count += 1
WriteBody(w) ==
    /\ script = "threaded"
    /\ pc[w] = "w_in"
    /\ LET k == cur[w].key
           line == transform_line(cur[w], k[2])
           r == Write(uploaders[k], line)
       IN  /\ uploaders' = [uploaders EXCEPT ![k] = Unlocked(r.u)]
           /\ upload_queue' = IF r.submitted
                              THEN Append(upload_queue, [key |-> k, content |-> r.u.content])
                              ELSE upload_queue
           /\ wlog' = LogWrite(k, line, r.outcome)
           /\ NextLine(w, ~r.raised)
    /\ UNCHANGED <<fixed, uploader_lock, constructed, put_log, next_file,
                   cur_file, line_no, skipped, mainvars>>

\* -------------------------------------------------- threaded: upload pool
RemoveAt(s, i) == SubSeq(s, 1, i - 1) \o SubSeq(s, i + 1, Len(s))

\* _do_upload, run by one of the UPLOAD_WORKERS threads
DoUpload ==
    /\ script = "threaded"
    /\ \E i \in 1..Len(upload_queue), ok \in BOOLEAN :
          /\ i <= UPLOAD_WORKERS
          /\ LET t == upload_queue[i]
             IN  /\ put_log' = Append(put_log, [key |-> ObjectKey(uploaders[t.key]),
                                                dest |-> DestKey(uploaders[t.key]),
                                                content |-> t.content, ok |-> ok])
                 /\ uploaders' = [uploaders EXCEPT ![t.key].uploaded = TRUE]
          /\ upload_queue' = RemoveAt(upload_queue, i)
    /\ UNCHANGED <<fixed, uploader_lock, constructed, wlog, next_file, pc, wvars, mainvars>>

\* ------------------------------------------------------- threaded: main
\* for future in as_completed(futures): total_lines += future.result()
MainCollect ==
    /\ script = "threaded"
    /\ main_pc = "pool"
    /\ results # <<>>
    /\ results' = Tail(results)
    /\ IF Head(results).none
       THEN \* int += None raises TypeError
            /\ main_pc' = "crashed"
            /\ UNCHANGED <<collected, total_lines>>
       ELSE /\ total_lines' = total_lines + Head(results).val
            /\ collected' = collected + 1
            /\ UNCHANGED main_pc
    /\ UNCHANGED <<fixed, uploaders, uploader_lock, hist, upload_queue, next_file, pc, wvars>>

\* leaving the with block once every future was collected
MainExitPool ==
    /\ script = "threaded"
    /\ main_pc = "pool"
    /\ collected = nfiles
    /\ main_pc' = "barrier"
    /\ UNCHANGED <<fixed, uploaders, uploader_lock, hist, upload_queue, next_file, pc, wvars,
                   results, collected, total_lines>>

\* variant: shutdown(wait=False)
ShutdownReturns_nowait == TRUE

\* shutdown(wait=True) returns once every submitted task has run
ShutdownReturns == upload_queue = <<>>

\* upload_executor.shutdown(wait=True), then the summary line
MainShutdown ==
    /\ script = "threaded"
    /\ main_pc = "barrier"
    /\ ShutdownReturns
    /\ main_pc' = "done"
    /\ UNCHANGED <<fixed, uploaders, uploader_lock, hist, upload_queue, next_file, pc, wvars,
                   results, collected, total_lines>>

ThreadedNext ==
    \/ \E w \in Workers : TakeFile(w)
    \/ \E w \in Workers : BeginScan(w)
    \/ \E w \in Workers : CheckAllUploaded(w)
    \/ \E w \in Workers : EnterBody(w)
    \/ \E w \in Workers : OpenStream(w)
    \/ \E w \in Workers : ReadLine(w)
    \/ \E w \in Workers : EndOfStream(w)
    \/ \E w \in Workers : GetUploaderCheck(w)
    \/ \E w \in Workers : GetUploaderAcquire(w)
    \/ \E w \in Workers : GetUploaderCreate(w)
    \/ \E w \in Workers : WriteAcquire(w)
    \/ \E w \in Workers : WriteBody(w)
    \/ DoUpload
    \/ MainCollect
    \/ MainExitPool
    \/ MainShutdown

\* =============================================================== sequential
tvars0 == <<uploader_lock, upload_queue, pc, cur_file, line_no, cur, line_count, w_up,
            results, collected>>
tvars == <<tvars0, skipped>>
bvars == <<buffers, grouped_data, upload_tasks>>

\* get_uploader of the sequential script: the dict after the call
SeqGetUploader(key) ==
    IF key \notin DOMAIN uploaders
    THEN [k \in DOMAIN uploaders \cup {key} |->
            IF k = key
            THEN NewUploader(key[1], key[2], SIZE_LIMITS_MB_seq(key) * SEQ_LIMIT_FACTOR,
                             constructed[key] + 1)
            ELSE uploaders[k]]
    ELSE uploaders

\* variant: the buffer stays open after the upload
Flush_reopen(u, ok) ==
    IF NothingToUpload(u)
    THEN [u |-> u, called |-> FALSE, raised |-> FALSE]
    ELSE [u |-> [u EXCEPT !.gz_closed = TRUE, !.uploaded = ok], called |-> TRUE,
          raised |-> FALSE]

\* variant: try/finally without the except clause
Flush_raises(u, ok) ==
    IF NothingToUpload(u)
    THEN [u |-> u, called |-> FALSE, raised |-> FALSE]
    ELSE IF u.buffer_closed
    THEN [u |-> [u EXCEPT !.gz_closed = TRUE], called |-> FALSE, raised |-> TRUE]
    ELSE [u |-> [u EXCEPT !.gz_closed = TRUE, !.buffer_closed = TRUE, !.uploaded = ok],
          called |-> TRUE, raised |-> ~ok]

\* _flush; ok is the outcome of put_object, called tells whether it was
\* called, raised whether _flush raises to its caller (the except clause
\* catches every Exception)
Flush(u, ok) ==
    IF NothingToUpload(u)
    THEN [u |-> u, called |-> FALSE, raised |-> FALSE]
    ELSE IF u.buffer_closed
    THEN \* buffer.seek(0) raises ValueError inside the try: logged, no put_object
         [u |-> [u EXCEPT !.gz_closed = TRUE], called |-> FALSE, raised |-> FALSE]
    ELSE [u |-> [u EXCEPT !.gz_closed = TRUE, !.buffer_closed = TRUE, !.uploaded = ok],
          called |-> TRUE, raised |-> FALSE]

\* write of the sequential script; raised: gz_file.write raised ValueError
SeqWrite(u, line, ok) ==
    IF u.uploaded
    THEN [u |-> u, called |-> FALSE, outcome |-> "uploaded", raised |-> FALSE]
    ELSE IF OverBudget(u, AddedSize(line))
    THEN [u |-> Flush(u, ok).u, called |-> Flush(u, ok).called,
          outcome |-> "budget", raised |-> Flush(u, ok).raised]
    ELSE IF u.gz_closed
    THEN [u |-> u, called |-> FALSE, outcome |-> "closed", raised |-> TRUE]
    ELSE [u |-> Accept(u, line), called |-> FALSE, outcome |-> "accepted", raised |-> FALSE]

PutObject(u, ok) ==
    [key |-> ObjectKey(u), dest |-> DestKey(u), content |-> u.content, ok |-> ok]

\* the next listed object: total_files += 1 and get_object, or the end of the listing
SeqNextFile ==
    /\ script = "sequential"
    /\ main_pc = "next"
    /\ IF next_file <= nfiles
       THEN /\ next_file' = next_file + 1
            /\ \E ok \in BOOLEAN :
                  /\ main_pc' = IF ok THEN "stream" ELSE "next"
                  /\ failed' = IF ok THEN failed ELSE failed \cup {next_file}
       ELSE /\ main_pc' = "drain"
            /\ UNCHANGED <<next_file, failed>>
    /\ UNCHANGED <<script, env, passed_over, nfiles, uploaders, hist, total_lines,
                   s_line, s_count, drained, tvars, bvars>>

\* one iteration of `for raw_line in file_stream`
SeqLine ==
    /\ script = "sequential"
    /\ main_pc = "stream"
    /\ s_line < StreamLen(next_file - 1)
    /\ \E raw \in NextRaws(next_file - 1, s_line + 1), ok \in BOOLEAN :
          IF raw.kind = "badutf8"
          THEN \* decode raises outside the inner try: the object is given up
               /\ main_pc' = "next"
               /\ s_line' = 0
               /\ s_count' = 0
               /\ skipped' = [skipped EXCEPT ![0] = ""]
               /\ UNCHANGED <<uploaders, hist>>
          ELSE IF raw.kind = "json" /\ Accepted(raw, SIZE_LIMITS_MB_seq(KeyOf(raw)))
          THEN LET c == Classify(raw)
                   key == <<c.platform, c.geo3>>
                   data == [id |-> <<next_file - 1, s_line + 1>>, key |-> key,
                            platform |-> raw.platform,
                            country_code |-> raw.country_code, len |-> raw.len]
                   ups == SeqGetUploader(key)
                   line == transform_line(data, c.geo3)
                   r == SeqWrite(ups[key], line, ok)
               IN  /\ uploaders' = [ups EXCEPT ![key] = r.u]
                   /\ constructed' = [constructed EXCEPT
                                        ![key] = IF key \in DOMAIN uploaders THEN @ ELSE @ + 1]
                   /\ wlog' = LogWrite(key, line, r.outcome)
                   /\ put_log' = IF r.called THEN Append(put_log, PutObject(ups[key], ok))
                                 ELSE put_log
                   /\ s_count' = IF r.raised THEN s_count ELSE s_count + 1
                   /\ s_line' = s_line + 1
                   /\ skipped' = [skipped EXCEPT ![0] = ""]
                   /\ UNCHANGED main_pc
          ELSE /\ s_line' = s_line + 1
               /\ skipped' = [skipped EXCEPT ![0] = Skipped(raw, SIZE_LIMITS_MB_seq(KeyOf(raw)))]
               /\ UNCHANGED <<uploaders, hist, s_count, main_pc>>
    /\ UNCHANGED <<script, envh, nfiles, next_file, total_lines, drained, tvars0, bvars>>

\* the stream ends: total_lines += line_count
SeqEndFile ==
    /\ script = "sequential"
    /\ main_pc = "stream"
    /\ StreamEnded(next_file - 1, s_line)
    /\ total_lines' = total_lines + s_count
    /\ s_line' = 0
    /\ s_count' = 0
    /\ skipped' = [skipped EXCEPT ![0] = ""]
    /\ main_pc' = "next"
    /\ UNCHANGED <<script, envh, nfiles, next_file, uploaders, hist, drained,
                   tvars0, bvars>>

\* for uploader in uploaders.values(): uploader._flush()
SeqDrain ==
    /\ script = "sequential"
    /\ main_pc = "drain"
    /\ \E k \in DOMAIN uploaders \ drained, ok \in BOOLEAN :
          LET r == Flush(uploaders[k], ok)
          IN  /\ uploaders' = [uploaders EXCEPT ![k] = r.u]
              /\ put_log' = IF r.called THEN Append(put_log, PutObject(uploaders[k], ok))
                            ELSE put_log
              /\ drained' = drained \cup {k}
              /\ main_pc' = IF r.raised THEN "crashed" ELSE main_pc
    /\ UNCHANGED <<script, envh, nfiles, next_file, constructed, wlog, total_lines,
                   s_line, s_count, tvars, bvars>>

\* the summary line
SeqDone ==
    /\ script = "sequential"
    /\ main_pc = "drain"
    /\ drained = DOMAIN uploaders
    /\ main_pc' = "done"
    /\ UNCHANGED <<script, envh, nfiles, next_file, uploaders, hist, total_lines,
                   s_line, s_count, drained, tvars, bvars>>

SequentialNext ==
    \/ SeqNextFile
    \/ SeqLine
    \/ SeqEndFile
    \/ SeqDrain
    \/ SeqDone

\* ============================================================ batch scripts
sqvars == <<uploaders, constructed, wlog, nfiles, next_file, total_lines, s_count>>

\* the grouping key of online_to_aliyun.py and online_to_aliyun2.py
ClassifyBatch(data) ==
    LET cc2 == Upper(Strip(data.country_code))
        platform == Lower(Strip(data.platform))
    IN  [platform |-> platform, geo3 |-> country_2to3_lower(cc2),
         whitelisted |-> platform \in {"android", "ios"}]

BatchLine(raw, n) ==
    [id |-> <<1, n>>, platform |-> raw.platform, country_code |-> raw.country_code,
     len |-> raw.len]

\* '\n'.join(lines): every line in full
Joined(lines) == [i \in 1..Len(lines) |-> [id |-> lines[i].id, line |-> lines[i],
                                          n |-> lines[i].len + 1]]

\* dicts keep insertion order: of the keys not yet visited, the loop takes
\* the one whose first line came first (a key without lines uploads nothing)
FirstId(lines) == IF lines = <<>> THEN 0 ELSE lines[1].id[2]

IsNextKey(k, rest, first) ==
    /\ k \in rest
    /\ \A j \in rest : first[k] <= first[j]

\* ---------------------------------------------------- online_to_aliyun2.py
\* buffers[key] of a defaultdict: the dict after the access
Touch(bufs, key) ==
    IF key \in DOMAIN bufs THEN bufs
    ELSE [k \in DOMAIN bufs \cup {key} |->
            IF k = key THEN [lines |-> <<>>, current_size |-> 0] ELSE bufs[k]]

AppendLine(bufs, key, line, line_size) ==
    [Touch(bufs, key) EXCEPT ![key].lines = Append(@, line),
                             ![key].current_size = @ + line_size]

\* the test of process_line for a key with a limit
Fits(buf, line_size, max_size) == buf.current_size + line_size <= max_size

\* process_line: the buffers after the call
process_line(bufs, line_str) ==
    LET c == ClassifyBatch(line_str)
        key == <<c.platform, c.geo3>>
        line_size == line_str.len + 1
        max_size == SIZE_LIMITS_MB_b2(key) * BytesPerMB
    IN  IF ~c.whitelisted THEN bufs
        ELSE IF max_size = 0 THEN AppendLine(bufs, key, line_str, line_size)
        ELSE IF Fits(Touch(bufs, key)[key], line_size, max_size)
        THEN AppendLine(bufs, key, line_str, line_size)
        ELSE Touch(bufs, key)

LinesOf(bufs, key) == IF key \in DOMAIN bufs THEN bufs[key].lines ELSE <<>>

\* one line of the input; only a JSON line changes the buffers
B2Line ==
    /\ script = "batch2"
    /\ main_pc = "stream"
    /\ s_line < InputLen
    /\ \E raw \in NextInputs(s_line + 1) :
          LET line == BatchLine(raw, s_line + 1)
              c == ClassifyBatch(raw)
              key == <<c.platform, c.geo3>>
              after == process_line(buffers, line)
              kept == key \in DOMAIN after /\ after[key].lines = Append(LinesOf(buffers, key), line)
          IN  IF raw.kind = "json"
              THEN /\ buffers' = after
                   /\ wlog' = IF c.whitelisted
                              THEN LogWrite(key, line, IF kept THEN "accepted" ELSE "budget")
                              ELSE wlog
              ELSE UNCHANGED <<buffers, wlog>>
    /\ s_line' = s_line + 1
    /\ UNCHANGED <<script, envh, main_pc, put_log, drained, grouped_data,
                   upload_tasks, uploaders, constructed, nfiles, next_file, total_lines,
                   s_count, tvars>>

\* the listing is exhausted
B2EndInput ==
    /\ script = "batch2"
    /\ main_pc = "stream"
    /\ InputEnded(s_line)
    /\ main_pc' = "upload"
    /\ UNCHANGED <<script, envh, put_log, s_line, drained, bvars, sqvars, tvars>>

\* one iteration of `for (platform, geo3), buf in buffers.items()`
B2Upload ==
    /\ script = "batch2"
    /\ main_pc = "upload"
    /\ \E k \in DOMAIN buffers \ drained, ok \in BOOLEAN :
          /\ IsNextKey(k, DOMAIN buffers \ drained,
                       [j \in DOMAIN buffers |-> FirstId(buffers[j].lines)])
          /\ put_log' = IF buffers[k].lines # <<>>
                        THEN Append(put_log, [key |-> k, dest |-> BatchDestKey(k[1], k[2]),
                                              content |-> Joined(buffers[k].lines),
                                              ok |-> ok])
                        ELSE put_log
          /\ drained' = drained \cup {k}
    /\ UNCHANGED <<script, envh, main_pc, s_line, bvars, sqvars, tvars>>

B2Done ==
    /\ script = "batch2"
    /\ main_pc = "upload"
    /\ drained = DOMAIN buffers
    /\ main_pc' = "done"
    /\ UNCHANGED <<script, envh, put_log, s_line, drained, bvars, sqvars, tvars>>

\* ----------------------------------------------------- online_to_aliyun.py
\* grouped_data[(platform, geo3)].append(line)
Group(groups, key, line) ==
    [k \in DOMAIN groups \cup {key} |->
        IF k = key
        THEN (IF key \in DOMAIN groups THEN Append(groups[key], line) ELSE <<line>>)
        ELSE groups[k]]

\* one line of log_lines in step 2
B1Line ==
    /\ script = "batch"
    /\ main_pc = "group"
    /\ s_line < InputLen
    /\ \E raw \in {r \in NextInputs(s_line + 1) : r.kind \in {"json", "badjson"}} :
          LET c == ClassifyBatch(raw)
              key == <<c.platform, c.geo3>>
              line == BatchLine(raw, s_line + 1)
          IN  IF raw.kind = "json" /\ c.whitelisted
              THEN /\ grouped_data' = Group(grouped_data, key, line)
                   /\ wlog' = LogWrite(key, line, "grouped")
              ELSE UNCHANGED <<grouped_data, wlog>>
    /\ s_line' = s_line + 1
    /\ UNCHANGED <<script, envh, main_pc, put_log, drained, buffers,
                   upload_tasks, uploaders, constructed, nfiles, next_file, total_lines,
                   s_count, tvars>>

\* variant: `continue` in place of `break`
RECURSIVE SelectLines_skip(_, _, _)
SelectLines_skip(lines, max_bytes, current_size) ==
    IF lines = <<>> THEN <<>>
    ELSE LET line_size == Head(lines).len + 1
         IN  IF current_size + line_size > max_bytes
             THEN SelectLines_skip(Tail(lines), max_bytes, current_size)
             ELSE <<Head(lines)>> \o
                  SelectLines_skip(Tail(lines), max_bytes, current_size + line_size)

\* the loop of step 3 over one key's lines, from current_size on
RECURSIVE SelectLines(_, _, _)
SelectLines(lines, max_bytes, current_size) ==
    IF lines = <<>> THEN <<>>
    ELSE LET line_size == Head(lines).len + 1
         IN  IF current_size + line_size > max_bytes
             THEN <<>>
             ELSE <<Head(lines)>> \o
                  SelectLines(Tail(lines), max_bytes, current_size + line_size)

\* variant: a key without a limit keeps nothing
Selected_drop(key, lines) ==
    IF SIZE_LIMITS_MB_b1(key) = 0 THEN <<>>
    ELSE SelectLines(lines, SIZE_LIMITS_MB_b1(key) * BytesPerMB, 0)

\* the lines step 3 keeps for a key
Selected(key, lines) ==
    IF SIZE_LIMITS_MB_b1(key) = 0 THEN lines
    ELSE SelectLines(lines, SIZE_LIMITS_MB_b1(key) * BytesPerMB, 0)

\* the end of log_lines: the early returns, or step 3
B1Truncate ==
    /\ script = "batch"
    /\ main_pc = "group"
    /\ InputEnded(s_line)
    /\ IF DOMAIN grouped_data = {}
       THEN /\ main_pc' = "done"
            /\ UNCHANGED upload_tasks
       ELSE /\ main_pc' = "upload"
            /\ upload_tasks' = [k \in DOMAIN grouped_data |-> Selected(k, grouped_data[k])]
    /\ UNCHANGED <<script, envh, put_log, s_line, drained, buffers, grouped_data,
                   sqvars, tvars>>

\* one iteration of `for platform, geo3, lines in upload_tasks`
B1Upload ==
    /\ script = "batch"
    /\ main_pc = "upload"
    /\ \E k \in DOMAIN upload_tasks \ drained, ok \in BOOLEAN :
          /\ IsNextKey(k, DOMAIN upload_tasks \ drained,
                       [j \in DOMAIN grouped_data |-> FirstId(grouped_data[j])])
          /\ put_log' = IF upload_tasks[k] # <<>>
                        THEN Append(put_log, [key |-> k, dest |-> BatchDestKey(k[1], k[2]),
                                              content |-> Joined(upload_tasks[k]),
                                              ok |-> ok])
                        ELSE put_log
          /\ drained' = drained \cup {k}
    /\ UNCHANGED <<script, envh, main_pc, s_line, bvars, sqvars, tvars>>

B1Done ==
    /\ script = "batch"
    /\ main_pc = "upload"
    /\ drained = DOMAIN upload_tasks
    /\ main_pc' = "done"
    /\ UNCHANGED <<script, envh, put_log, s_line, drained, bvars, sqvars, tvars>>

BatchNext ==
    \/ B2Line
    \/ B2EndInput
    \/ B2Upload
    \/ B2Done
    \/ B1Line
    \/ B1Truncate
    \/ B1Upload
    \/ B1Done

Next == ThreadedNext \/ SequentialNext \/ BatchNext

Spec == Init /\ [][Next]_vars

\* The threaded and the sequential script with the scheduling the operating
\* system gives their threads: the run does not stop while some thread can
\* take a step.
InitStreaming == Init /\ script \in {"threaded", "sequential"}

NextStreaming == ThreadedNext \/ SequentialNext

FairSpec == InitStreaming /\ [][NextStreaming]_vars /\ WF_vars(NextStreaming)

\* The same scripts run on given objects.
InitGiven ==
    /\ script \in Scripts
    /\ entry_check \in (IF script = "threaded" THEN BOOLEAN ELSE {TRUE})
    /\ source \in GivenSources(script)
    /\ nfiles = (IF script \in {"threaded", "sequential"} THEN Len(source) ELSE 0)
    /\ uploaders = <<>>
    /\ uploader_lock = 0
    /\ constructed = [k \in AllKeys |-> 0]
    /\ wlog = [k \in AllKeys |-> <<>>]
    /\ upload_queue = <<>>
    /\ put_log = <<>>
    /\ next_file = 1
    /\ pc = [w \in Workers |-> "idle"]
    /\ cur_file = [w \in Workers |-> 0]
    /\ line_no = [w \in Workers |-> 0]
    /\ cur = [w \in Workers |-> NoLine]
    /\ line_count = [w \in Workers |-> 0]
    /\ w_up = [w \in Workers |-> 0]
    /\ results = <<>>
    /\ collected = 0
    /\ total_lines = 0
    /\ main_pc = InitialPc(script)
    /\ s_line = 0
    /\ s_count = 0
    /\ drained = {}
    /\ buffers = <<>>
    /\ grouped_data = <<>>
    /\ upload_tasks = <<>>
    /\ skipped = [w \in 0..NumWorkers |-> ""]
    /\ now = RunNow
    /\ times = get_time_ranges_for_previous_hour(now)
    /\ passed_over = {}
    /\ failed = {}
    /\ NotListing
    /\ NotScanning

SpecGiven == InitGiven /\ [][Next]_vars

\* The start of main at any time of the clock: datetime.utcnow() is one of Nows.
MaxDay == 2
Minutes == {0, 30, 59}
Nows == [day : 0..MaxDay, hour : 0..23, minute : Minutes]

InitTime ==
    /\ script \in Scripts
    /\ entry_check = TRUE
    /\ source = <<>>
    /\ nfiles = 0
    /\ uploaders = <<>>
    /\ uploader_lock = 0
    /\ constructed = [k \in AllKeys |-> 0]
    /\ wlog = [k \in AllKeys |-> <<>>]
    /\ upload_queue = <<>>
    /\ put_log = <<>>
    /\ next_file = 1
    /\ pc = [w \in Workers |-> "idle"]
    /\ cur_file = [w \in Workers |-> 0]
    /\ line_no = [w \in Workers |-> 0]
    /\ cur = [w \in Workers |-> NoLine]
    /\ line_count = [w \in Workers |-> 0]
    /\ w_up = [w \in Workers |-> 0]
    /\ results = <<>>
    /\ collected = 0
    /\ total_lines = 0
    /\ main_pc = "start"
    /\ s_line = 0
    /\ s_count = 0
    /\ drained = {}
    /\ buffers = <<>>
    /\ grouped_data = <<>>
    /\ upload_tasks = <<>>
    /\ skipped = [w \in 0..NumWorkers |-> ""]
    /\ now \in Nows
    /\ times = NoTimes
    /\ passed_over = {}
    /\ failed = {}
    /\ NotListing
    /\ NotScanning

\* utc0_hour_dt, utc8_hour_dt = get_time_ranges_for_previous_hour()
MainGetTimes ==
    /\ main_pc = "start"
    /\ times' = get_time_ranges_for_previous_hour(now)
    /\ main_pc' = "timed"
    /\ UNCHANGED <<script, entry_check, source, now, listing, passed_over, failed, nfiles,
                   scan, scan_raised, put_log,
                   s_line, drained, buffers, grouped_data, upload_tasks, uploaders,
                   constructed, wlog, next_file, total_lines, s_count,
                   uploader_lock, upload_queue, pc, cur_file, line_no, cur, line_count,
                   w_up, skipped, results, collected>>

NextTime == MainGetTimes

SpecTime == InitTime /\ [][NextTime]_vars

\* The listing loop of main (threaded) and of fetch_all_logs (batch) over the
\* pages of every source location.
InitList ==
    /\ script \in {"threaded", "batch"}
    /\ entry_check = TRUE
    /\ source = <<>>
    /\ nfiles = 0
    /\ uploaders = <<>>
    /\ uploader_lock = 0
    /\ constructed = [k \in AllKeys |-> 0]
    /\ wlog = [k \in AllKeys |-> <<>>]
    /\ upload_queue = <<>>
    /\ put_log = <<>>
    /\ next_file = 1
    /\ pc = [w \in Workers |-> "idle"]
    /\ cur_file = [w \in Workers |-> 0]
    /\ line_no = [w \in Workers |-> 0]
    /\ cur = [w \in Workers |-> NoLine]
    /\ line_count = [w \in Workers |-> 0]
    /\ w_up = [w \in Workers |-> 0]
    /\ results = <<>>
    /\ collected = 0
    /\ total_lines = 0
    /\ main_pc = "list"
    /\ s_line = 0
    /\ s_count = 0
    /\ drained = {}
    /\ buffers = <<>>
    /\ grouped_data = <<>>
    /\ upload_tasks = <<>>
    /\ skipped = [w \in 0..NumWorkers |-> ""]
    /\ now = RunNow
    /\ times = get_time_ranges_for_previous_hour(now)
    /\ passed_over = {}
    /\ failed = {}
    /\ cos \in [Locations -> PageLists]
    /\ conf = 1
    /\ marker = 1
    /\ file_list = <<>>
    /\ list_log = <<>>
    /\ NotScanning

\* what the listing actions leave alone
notlisting == <<script, entry_check, source, now, times, passed_over, failed, put_log,
               scan, scan_raised,
               s_line, drained, buffers, grouped_data, upload_tasks, uploaders,
               constructed, wlog, next_file, total_lines, s_count,
               uploader_lock, upload_queue, pc, cur_file, line_no, cur, line_count,
               w_up, skipped, results, collected>>

\* `break`: the while loop of this location is left, the for loop goes on
BreakLocation ==
    /\ conf' = conf + 1
    /\ marker' = 1

\* list_objects returns a page: its keys are appended, and the loop goes on
\* to the next page unless the page is the last one (or, in fetch_all_logs,
\* has no Contents)
ListPage ==
    /\ main_pc = "list"
    /\ conf \in Locations
    /\ list_log' = Append(list_log, [conf |-> conf, page |-> marker, ok |-> TRUE])
    /\ IF script = "batch" /\ cos[conf][marker] = <<>>
       THEN /\ BreakLocation
            /\ UNCHANGED file_list
       ELSE /\ file_list' = file_list \o Appended(conf, marker)
            /\ IF isTruncated(conf, marker)
               THEN /\ marker' = marker + 1
                    /\ UNCHANGED conf
               ELSE BreakLocation
    /\ UNCHANGED <<notlisting, cos, nfiles, main_pc>>

\* list_objects raises: except Exception: logger.error(...); break
ListPageRaises ==
    /\ main_pc = "list"
    /\ conf \in Locations
    /\ list_log' = Append(list_log, [conf |-> conf, page |-> marker, ok |-> FALSE])
    /\ BreakLocation
    /\ UNCHANGED <<notlisting, cos, nfiles, main_pc, file_list>>

\* the for loop over prefixes is over: len(file_list) objects to process
ListEnd ==
    /\ main_pc = "list"
    /\ conf \notin Locations
    /\ main_pc' = "listed"
    /\ nfiles' = Len(file_list)
    /\ UNCHANGED <<notlisting, listing>>

NextList ==
    \/ ListPage
    \/ ListPageRaises
    \/ ListEnd

SpecList == InitList /\ [][NextList]_vars

\* ================================================================== claims
RECURSIVE SumN(_)
SumN(c) == IF c = <<>> THEN 0 ELSE Head(c).n + SumN(Tail(c))

RECURSIVE SumLen(_)
SumLen(ls) == IF ls = <<>> THEN 0 ELSE (Head(ls).len + 1) + SumLen(Tail(ls))

Streaming == script \in {"threaded", "sequential"}
Batch == script \in {"batch", "batch2"}

\* the budget, in bytes, that the script's table gives a key
Budget(k) ==
    CASE script = "threaded" -> SIZE_LIMITS_MB_sync(k) * BytesPerMB
      [] script = "sequential" -> SIZE_LIMITS_MB_seq(k) * SEQ_LIMIT_FACTOR * BytesPerMB
      [] script = "batch" -> SIZE_LIMITS_MB_b1(k) * BytesPerMB
      [] script = "batch2" -> SIZE_LIMITS_MB_b2(k) * BytesPerMB

Outcomes(k) == {wlog[k][i].outcome : i \in 1..Len(wlog[k])}
PutsOf(k) == {i \in 1..Len(put_log) : put_log[i].key = k}
TasksOf(k) == {i \in 1..Len(upload_queue) : upload_queue[i].key = k}
\* the payloads handed to the upload pool for k, run or not yet
Payloads(k) == {put_log[i].content : i \in PutsOf(k)}
               \cup {upload_queue[i].content : i \in TasksOf(k)}

\* C1: a buffer with a byte budget never holds more than its budget: for every
\* BufferedUploader, and every buffer of process_line with a limit, current_size
\* and the bytes of the accepted lines (newline included) are <= the budget.
C1_BudgetInvariant ==
    /\ \A k \in DOMAIN uploaders :
          Budget(k) # 0 =>
             /\ uploaders[k].limit_bytes = Budget(k)
             /\ uploaders[k].current_size <= Budget(k)
             /\ SumN(uploaders[k].content) <= Budget(k)
    /\ \A k \in DOMAIN buffers :
          Budget(k) # 0 =>
             /\ buffers[k].current_size <= Budget(k)
             /\ SumLen(buffers[k].lines) <= Budget(k)

\* two threads have filled a buffer to its budget and a further line was turned away
C1_Witness ==
    /\ script = "threaded"
    /\ \E k \in DOMAIN uploaders :
          /\ uploaders[k].current_size = Budget(k)
          /\ "budget" \in Outcomes(k)
          /\ \E i, j \in 1..Len(uploaders[k].content) :
                uploaders[k].content[i].id[1] # uploaders[k].content[j].id[1]

C3_StressPayload ==
    script = "threaded" =>
       \A k \in DOMAIN uploaders : \A s \in LineLens :
          (\A i \in 1..Len(wlog[k]) : wlog[k][i].len = s) =>
             LET K == Budget(k) \div (s + 1)
             IN  /\ \A c \in Payloads(k) :
                       /\ Len(c) = K
                       /\ \A i \in 1..Len(c) :
                             /\ c[i].n = s + 1
                             /\ \E j \in 1..Len(wlog[k]) :
                                   /\ wlog[k][j].id = c[i].id
                                   /\ wlog[k][j].outcome = "accepted"
                       /\ \A i, j \in 1..Len(c) : i # j => c[i].id # c[j].id
                 /\ (main_pc = "done" /\ K >= 1 /\ Len(wlog[k]) > K) => uploaders[k].uploaded

\* two threads wrote two lines each, in turn, to a buffer that holds two of them
C3_Witness ==
    /\ script = "threaded"
    /\ main_pc = "done"
    /\ \E k \in DOMAIN uploaders :
          /\ Len(wlog[k]) = 4
          /\ \A i \in 1..4 : wlog[k][i].len = 1
          /\ wlog[k][1].id[1] # wlog[k][2].id[1]
          /\ Budget(k) \div 2 = 2
          /\ uploaders[k].uploaded
          /\ \E i \in PutsOf(k) : Len(put_log[i].content) = 2

\* C4: in the sequential script put_object is called at most once per buffer,
\* whatever the sequence of _flush calls and whether the first call succeeded.
C4_FlushOnce ==
    script = "sequential" => \A k \in AllKeys : Cardinality(PutsOf(k)) <= 1

\* the upload triggered by an overflowing write failed, and the end-of-run
\* _flush was called on the same buffer afterwards
C4_Witness ==
    /\ script = "sequential"
    /\ \E k \in drained :
          /\ "budget" \in Outcomes(k)
          /\ \E i \in PutsOf(k) : ~put_log[i].ok

\* C5: once a write to a buffer was turned away for the budget, no later write
\* to that buffer is accepted.
C5_ClosedAfterReject ==
    Streaming =>
       \A k \in AllKeys : \A i, j \in 1..Len(wlog[k]) :
          (i < j /\ wlog[k][i].outcome = "budget") => wlog[k][j].outcome # "accepted"

\* what a write can change in a buffer (an absent buffer is an empty one)
BufState(ups, k) ==
    IF k \in DOMAIN ups
    THEN <<ups[k].content, ups[k].current_size, ups[k].line_count>>
    ELSE <<<<>>, 0, 0>>

\* C6: a write turned away for the budget, or arriving after uploaded is True,
\* leaves payload, current_size and line_count as they were; every line of every
\* uploaded payload is a whole line that an accepted write passed in.
C6_RejectedWriteNotApplied ==
    /\ [][Streaming =>
            \A k \in AllKeys :
               (/\ Len(wlog'[k]) = Len(wlog[k]) + 1
                /\ wlog'[k][Len(wlog'[k])].outcome \in {"budget", "uploaded"})
               => BufState(uploaders', k) = BufState(uploaders, k)]_vars
    /\ [](Streaming =>
            \A i \in 1..Len(put_log) : \A j \in 1..Len(put_log[i].content) :
               LET e == put_log[i].content[j]
               IN  /\ e.n = e.line.len + 1
                   /\ \E w \in 1..Len(wlog[put_log[i].key]) :
                         /\ wlog[put_log[i].key][w].id = e.id
                         /\ wlog[put_log[i].key][w].len = e.line.len
                         /\ wlog[put_log[i].key][w].outcome = "accepted")

\* a buffer has turned a line away for the budget, another after its upload,
\* and its payload was put
C6_Witness ==
    /\ script = "threaded"
    /\ \E k \in DOMAIN uploaders :
          /\ {"budget", "uploaded"} \subseteq Outcomes(k)
          /\ PutsOf(k) # {}

\* C7: get_uploader constructs at most one BufferedUploader per key, and every
\* call for a key returns that instance.
C7_OneUploaderPerKey ==
    script = "threaded" =>
       /\ \A k \in AllKeys : constructed[k] <= 1
       /\ \A w \in Workers :
             w_up[w] # 0 => /\ cur[w].key \in DOMAIN uploaders
                            /\ w_up[w] = uploaders[cur[w].key].inst
       /\ \A w1, w2 \in Workers :
             (w_up[w1] # 0 /\ w_up[w2] # 0 /\ cur[w1].key = cur[w2].key)
             => w_up[w1] = w_up[w2]

\* two first calls raced: one thread holds uploader_lock after it found the key
\* missing, while the other has already constructed and got the uploader
C7_Witness ==
    /\ script = "threaded"
    /\ \E w1, w2 \in Workers :
          /\ w1 # w2
          /\ pc[w1] = "gu_in"
          /\ cur[w1].key = cur[w2].key
          /\ cur[w1].key \in DOMAIN uploaders
          /\ w_up[w2] # 0

\* the record a payload line came from passes the filter
RecordPasses(line) ==
    LET p == Lower(Strip(line.platform))
        cc == Upper(Strip(line.country_code))
        g == country_2to3_lower(IF cc = "UK" THEN "GB" ELSE cc)
    IN  p \in {"android", "ios"} /\ g # "xxx" /\ Budget(<<p, g>>) # 0

AllContents ==
    {uploaders[k].content : k \in DOMAIN uploaders}
    \cup {put_log[i].content : i \in 1..Len(put_log)}
    \cup {upload_queue[i].content : i \in 1..Len(upload_queue)}

\* C8: in the threaded and sequential scripts every key of uploaders is in
\* SIZE_LIMITS_MB, with platform android or ios and a resolved country; no
\* buffered or uploaded line comes from a record that fails the filter.
C8_OnlyListedKeys ==
    Streaming =>
       /\ \A k \in DOMAIN uploaders :
             /\ Budget(k) # 0
             /\ k[1] \in {"android", "ios"}
             /\ k[2] # "xxx"
       /\ \A c \in AllContents : \A i \in 1..Len(c) : RecordPasses(c[i].line)

\* one thread has just skipped a record of another platform, the other a record
\* whose key has no limit, while a buffer exists and a payload was put
C8_Witness ==
    /\ script = "threaded"
    /\ skipped[1] = "platform"
    /\ skipped[2] = "nolimit"
    /\ DOMAIN uploaders # {}
    /\ put_log # <<>>

PutsOk == \A i \in 1..Len(put_log) : put_log[i].ok

\* the sequential run of the two-object scenario, finished, every get_object
\* and every put_object having succeeded
ScenarioRun ==
    /\ script = "sequential"
    /\ source \in ScenarioSources({"badjson", "badutf8"})
    /\ main_pc = "done"
    /\ failed = {}
    /\ PutsOk

\* C11: the sequential run on one object of three valid android/US lines and
\* one malformed line and one object of two ios lines ends with exactly one
\* put_object, for (android, usa), of exactly three lines, and none for ios.
C11_EndToEnd ==
    ScenarioRun =>
       /\ Len(put_log) = 1
       /\ put_log[1].key = <<"android", "usa">>
       /\ Len(put_log[1].content) = 3

\* a buffer of the threaded script, registered or still to be created by
\* get_uploader, would append this line of an object
WouldAccept(raw) ==
    /\ raw.kind = "json"
    /\ Accepted(raw, SIZE_LIMITS_MB_sync(KeyOf(raw)))
    /\ IF KeyOf(raw) \in DOMAIN uploaders
       THEN /\ ~uploaders[KeyOf(raw)].uploaded
            /\ ~uploaders[KeyOf(raw)].gz_closed
            /\ ~OverBudget(uploaders[KeyOf(raw)], raw.len + 1)
       ELSE raw.len + 1 <= SIZE_LIMITS_MB_sync(KeyOf(raw)) * BytesPerMB

\* C12: the all-uploaded check at the top of process_single_file loses
\* nothing: an object it returns on holds no line that a buffer would accept.
C12_SkippedObjectsHoldNothing ==
    script = "threaded" =>
       \A f \in passed_over : \A i \in 1..Len(source[f]) : ~WouldAccept(source[f][i])

\* C13: the threaded run is never aborted by one object: every worker future
\* yields a number and main never stops before the summary.
C13_RunNeverAborted ==
    script = "threaded" =>
       /\ main_pc # "crashed"
       /\ \A i \in 1..Len(results) : ~results[i].none

\* a line of an object that parses and passes the filter of the running script
ValidLine(raw) == raw.kind = "json" /\ SkipReason(raw, Budget(KeyOf(raw))) = ""

Malformed(raw) == raw.kind \in {"badjson", "badutf8"}

\* line n of object f was passed to the write of its buffer
Offered(f, n) ==
    \E i \in 1..Len(wlog[KeyOf(source[f][n])]) :
       wlog[KeyOf(source[f][n])][i].id = <<f, n>>

\* C14: a malformed line never aborts its object: when a threaded or sequential
\* run is done, every valid line that follows an unparsable or non-UTF-8 line
\* in an object that was downloaded has been offered to its buffer.
C14_MalformedLineSkipped ==
    (Streaming /\ main_pc = "done") =>
       \A f \in 1..Len(source) : \A i, j \in 1..Len(source[f]) :
          (/\ f \notin failed \cup passed_over
           /\ i < j
           /\ Malformed(source[f][i])
           /\ ValidLine(source[f][j]))
          => Offered(f, j)

\* C15: once the threaded main has logged its summary every submitted upload
\* task has finished, and from the moment main waits in
\* upload_executor.shutdown no task is submitted any more.
C15_UploadBarrier ==
    /\ []((script = "threaded" /\ main_pc = "done") => upload_queue = <<>>)
    /\ [][(script = "threaded" /\ main_pc \in {"barrier", "done"})
             => Len(upload_queue') <= Len(upload_queue)]_vars
    /\ [][(script = "threaded" /\ main_pc = "done") => put_log' = put_log]_vars

\* main has logged its summary after two uploads ran, one of which raised
C15_Witness ==
    /\ script = "threaded"
    /\ main_pc = "done"
    /\ Len(put_log) >= 2
    /\ \E i \in 1..Len(put_log) : ~put_log[i].ok

\* the writes that put a line into a buffer
AcceptedWrites ==
    UNION {{<<k, i>> : i \in {j \in 1..Len(wlog[k]) : wlog[k][j].outcome = "accepted"}}
           : k \in DOMAIN wlog}

\* C16: at the end of a run of the threaded or sequential script total_lines
\* equals the number of lines accepted into buffers; a line whose write was
\* rejected for budget or discarded by an uploaded buffer is not counted.
C16_TotalIsAccepted ==
    (Streaming /\ main_pc = "done") => total_lines = Cardinality(AcceptedWrites)

\* the platform code the output format gives a group key
PlatformCode(k) == IF k[1] = "android" THEN 2 ELSE IF k[1] = "ios" THEN 1 ELSE 0

\* every line of a buffer's content starts with the fields of its key
FieldsOfKey(k, content) ==
    \A i \in 1..Len(content) :
        /\ content[i].line.geo = Upper(k[2])
        /\ content[i].line.osi = PlatformCode(k)

\* C17: every line accepted into the buffer of (platform, geo3) starts with
\* geo3 in upper case and the platform code of the key (2 android, 1 ios),
\* whatever the raw platform string that passed the whitelist.
C17_LineFields ==
    Streaming =>
        /\ \A k \in DOMAIN uploaders : FieldsOfKey(k, uploaders[k].content)
        /\ \A i \in 1..Len(put_log) : FieldsOfKey(put_log[i].key, put_log[i].content)
        /\ \A i \in 1..Len(upload_queue) :
               FieldsOfKey(upload_queue[i].key, upload_queue[i].content)

\* the record of the given objects that a logged line came from
RecordOf(id) == IF Batch THEN Flat(source)[id[2]] ELSE source[id[1]][id[2]]

\* two records that differ at most in country_code, one UK or GB each
SameButCountry(r1, r2) ==
    /\ r1.kind = "json"
    /\ r2.kind = "json"
    /\ r1.platform = r2.platform
    /\ r1.len = r2.len
    /\ Upper(Strip(r1.country_code)) \in {"UK", "GB"}
    /\ Upper(Strip(r2.country_code)) \in {"UK", "GB"}

\* C18: in the threaded script and in online_to_aliyun.py two records that
\* differ only in country_code, UK against GB in any case and with blanks
\* around, are grouped under the same key (and so the same destination).
C18_UkIsGb ==
    (script \in {"threaded", "batch"} /\ source # <<>>) =>
        \A k1, k2 \in DOMAIN wlog :
            \A i \in 1..Len(wlog[k1]), j \in 1..Len(wlog[k2]) :
                SameButCountry(RecordOf(wlog[k1][i].id), RecordOf(wlog[k2][j].id))
                    => k1 = k2

\* the destination key of the buffer of group key k in this run
ExpectedDest(k) ==
    <<"track", date_part(times.utc0_hour_dt), hour_part(times.utc0_hour_dt),
      k[1] \o "." \o k[2] \o ".log.gz">>

\* C19: in the threaded and sequential scripts every upload of the buffer of
\* (platform, geo3) goes to track/<date>/<hour>/<platform>.<geo3>.log.gz with
\* the run's UTC+0 date and hour, and uploads of different group keys never
\* go to the same destination key.
C19_DestinationKeys ==
    Streaming =>
        /\ \A i \in 1..Len(put_log) : put_log[i].dest = ExpectedDest(put_log[i].key)
        /\ \A i, j \in 1..Len(put_log) :
               put_log[i].key # put_log[j].key => put_log[i].dest # put_log[j].dest
        /\ \A k1, k2 \in DOMAIN uploaders :
               k1 # k2 => DestKey(uploaders[k1]) # DestKey(uploaders[k2])

\* the buffers of two different group keys were uploaded
C19_Witness ==
    /\ Streaming
    /\ \E i, j \in 1..Len(put_log) : put_log[i].key # put_log[j].key

\* C20: for every current time get_time_ranges_for_previous_hour returns as
\* destination hour the full hour just before the current UTC hour and as
\* source hour the hour exactly 8 hours later, the date moving on by one day
\* when the shift crosses midnight.
C20_PreviousHour ==
    main_pc = "timed" =>
        LET d == times.utc0_hour_dt
            s == times.utc8_hour_dt
        IN  /\ HoursOf(d) = HoursOf(now) - 1
            /\ d.minute = 0
            /\ d.hour \in 0..23
            /\ d.hour = (now.hour + 23) % 24
            /\ d.day = (IF now.hour = 0 THEN now.day - 1 ELSE now.day)
            /\ s.minute = 0
            /\ s.hour = (d.hour + 8) % 24
            /\ s.day = (IF d.hour >= 16 THEN d.day + 1 ELSE d.day)

\* a run started in the first hour of a day: the destination hour is 23 of
\* the day before and the source hour is 7 of the current day
C20_Witness ==
    /\ main_pc = "timed"
    /\ now.hour = 0
    /\ now.minute = 59
    /\ times.utc0_hour_dt.hour = 23
    /\ times.utc8_hour_dt.day = times.utc0_hour_dt.day + 1

\* ------------------------------------------------------ claims C21 to C28
\* the list_objects call for page p of location c was made / raised
Asked(c, p) == \E i \in 1..Len(list_log) : list_log[i].conf = c /\ list_log[i].page = p
Raised(c, p) ==
    \E i \in 1..Len(list_log) :
        list_log[i].conf = c /\ list_log[i].page = p /\ ~list_log[i].ok

\* the object keys of page p of location c are all in file_list
Collected(c, p) ==
    \A i \in 1..Len(Appended(c, p)) :
        \E j \in 1..Len(file_list) : file_list[j] = Appended(c, p)[i]

\* C21: when list_objects raises for one page of a location, the keys of the
\* earlier pages are kept, the later pages of the same location are still
\* listed, the other locations are still listed, and the run continues.
C21_OnlyThePageIsSkipped ==
    main_pc = "listed" =>
        \A c \in Locations : \A p \in 1..Len(cos[c]) :
            Raised(c, p) =>
                /\ \A q \in 1..(p - 1) : Collected(c, q)
                /\ \A q \in (p + 1)..Len(cos[c]) : Asked(c, q)
                /\ \A d \in Locations \ {c} : Asked(d, 1)

\* the step runs a put_object that raises
PutRaised ==
    /\ Len(put_log') = Len(put_log) + 1
    /\ ~put_log'[Len(put_log')].ok

SomePutRaised == \E i \in 1..Len(put_log) : ~put_log[i].ok

\* C22: in the threaded and sequential scripts a put_object that raises does
\* not stop the run and touches no other BufferedUploader: the step leaves
\* every other uploader as it was, the run does not crash, at the summary no
\* submitted upload is left waiting and (sequential) every non-empty buffer
\* had its put_object called, and the run goes on to the summary.
C22_UploadFailureIsLocal ==
    /\ [][(Streaming /\ PutRaised) =>
             /\ main_pc' # "crashed"
             /\ \A k \in DOMAIN uploaders \ {put_log'[Len(put_log')].key} :
                    uploaders'[k] = uploaders[k]]_vars
    /\ []((Streaming /\ SomePutRaised) => main_pc # "crashed")
    /\ []((Streaming /\ SomePutRaised /\ main_pc = "done") =>
             /\ upload_queue = <<>>
             /\ script = "sequential" =>
                    \A k \in DOMAIN uploaders :
                        uploaders[k].line_count > 0 => PutsOf(k) # {})
    /\ (Streaming /\ SomePutRaised) ~> (main_pc = "done")

\* a run ended after the upload of one key raised and that of another succeeded
C22_Witness ==
    /\ Streaming
    /\ main_pc = "done"
    /\ \E i, j \in 1..Len(put_log) :
          /\ ~put_log[i].ok
          /\ put_log[j].ok
          /\ put_log[i].key # put_log[j].key

\* C23: in the threaded script the all-uploaded check lets a worker skip an
\* object only when at least one buffer is registered (and every registered
\* buffer is uploaded); with an empty registry the object is processed.
C23_EarlyExitNeedsABuffer ==
    script = "threaded" => (passed_over # {} => DOMAIN uploaders # {})

\* a thread is between two steps of the iteration over uploaders.values()
Scanning(w) == pc[w] = "scan"

\* a thread is in get_uploader on its way to insert a key
Inserting(w) == pc[w] \in {"gu", "gu_lock", "gu_in"}

InObjectOrder(content) ==
    \A i, j \in 1..Len(content) :
        (i < j /\ content[i].id[1] = content[j].id[1]) => content[i].id[2] < content[j].id[2]

\* C25: in the threaded script (and the sequential one) two lines of the
\* same source object accepted into the same buffer are in that buffer's
\* payload in the order they had in the object, whatever the interleaving
\* of the download threads.
C25_ObjectOrderKept ==
    Streaming => \A content \in AllContents : InObjectOrder(content)

\* a payload of the threaded script holds two lines of one object, written
\* while the other thread was reading the other object
C25_Witness ==
    /\ script = "threaded"
    /\ \E content \in AllContents :
          \E i, j \in 1..Len(content) : i < j /\ content[i].id[1] = content[j].id[1]
    /\ \A w \in Workers : line_no[w] > 0

\* the counters of a BufferedUploader agree with its payload
CountersAgree(u) ==
    /\ u.current_size = SumN(u.content)
    /\ \A i \in 1..Len(u.content) : u.content[i].n = u.content[i].line.len + 1
    /\ u.line_count = Len(u.content)

\* C26: in every state of the threaded and sequential scripts current_size of
\* a BufferedUploader is the sum of len(line)+1 over the lines of its payload
\* and line_count is their number, and neither ever decreases, also when
\* several threads write to the same buffer.
C26_CountersConsistent ==
    /\ [](Streaming => \A k \in DOMAIN uploaders : CountersAgree(uploaders[k]))
    /\ [][Streaming =>
             \A k \in DOMAIN uploaders :
                 /\ k \in DOMAIN uploaders'
                 /\ uploaders'[k].current_size >= uploaders[k].current_size
                 /\ uploaders'[k].line_count >= uploaders[k].line_count]_vars

\* a buffer of the threaded script holds lines written by two threads
C26_Witness ==
    /\ script = "threaded"
    /\ \E k \in DOMAIN uploaders :
          /\ uploaders[k].line_count = 2
          /\ uploaders[k].content[1].id[1] # uploaders[k].content[2].id[1]

\* the download threads holding a lock
HoldsBufferLock(w) == \E k \in DOMAIN uploaders : uploaders[k].lock = w
HoldsUploaderLock(w) == uploader_lock = w

\* every download thread is back in the pool and no object is left
PoolDrained ==
    /\ next_file > nfiles
    /\ \A w \in Workers : pc[w] = "idle"

\* C27: in the threaded script a lock is held only by a download thread
\* inside write (self.lock) or inside get_uploader (uploader_lock), never
\* both by one thread; a step of a thread holding a lock never runs
\* put_object; and every run of a finite list of finite objects comes to a
\* state where all download threads have finished and the pool is drained.
C27_LocksAndProgress ==
    /\ [](script = "threaded" =>
            \A w \in Workers :
                /\ HoldsBufferLock(w) => (pc[w] = "w_in" /\ uploaders[cur[w].key].lock = w)
                /\ HoldsUploaderLock(w) => pc[w] = "gu_in"
                /\ ~(HoldsBufferLock(w) /\ HoldsUploaderLock(w)))
    /\ [][script = "threaded" =>
             \A w \in Workers :
                 ((HoldsBufferLock(w) \/ HoldsUploaderLock(w)) /\ pc'[w] # pc[w])
                     => put_log' = put_log]_vars
    /\ (script = "threaded") ~> PoolDrained

\* a thread waits for the lock of a buffer another thread is writing to,
\* while an upload is queued
C27_Witness ==
    /\ script = "threaded"
    /\ upload_queue # <<>>
    /\ \E w, v \in Workers :
          /\ w # v
          /\ pc[w] = "w_lock"
          /\ uploaders[cur[w].key].lock = v

\* sel is the longest prefix of lines whose bytes, newlines included, fit
LongestPrefixWithin(sel, lines, max_bytes) ==
    /\ Len(sel) <= Len(lines)
    /\ sel = SubSeq(lines, 1, Len(sel))
    /\ SumLen(sel) <= max_bytes
    /\ Len(sel) < Len(lines) => SumLen(SubSeq(lines, 1, Len(sel) + 1)) > max_bytes

\* C28: in online_to_aliyun.py the lines selected for a key with a limit are
\* the longest prefix of the key's grouped lines, in arrival order, whose
\* sizes (bytes plus 1 each) sum to at most the limit: nothing after the
\* first over-budget line is kept, even if it would fit.
C28_TruncationKeepsPrefix ==
    (script = "batch" /\ main_pc \in {"upload", "done"}) =>
        \A k \in DOMAIN upload_tasks :
            SIZE_LIMITS_MB_b1(k) # 0 =>
                LongestPrefixWithin(upload_tasks[k], grouped_data[k],
                                    SIZE_LIMITS_MB_b1(k) * BytesPerMB)

\* a key's first line fits, its second does not, and its third, which would
\* fit after the first, is dropped
C28_Witness ==
    /\ script = "batch"
    /\ main_pc = "upload"
    /\ \E k \in DOMAIN upload_tasks :
          /\ SIZE_LIMITS_MB_b1(k) # 0
          /\ Len(grouped_data[k]) = 3
          /\ Len(upload_tasks[k]) = 1
          /\ SumLen(<<grouped_data[k][1], grouped_data[k][3]>>)
                <= SIZE_LIMITS_MB_b1(k) * BytesPerMB

====
